---- MODULE Spec2Model ----
(***************************************************************************)
(* CustomPlayer (my_custom_player.py): a depth-limited alpha-beta agent    *)
(* for knight's Isolation, with its family of evaluation heuristics.       *)
(*                                                                         *)
(* The game engine (Isolation) is an external collaborator.  It is         *)
(* modelled as an abstract finite game: the game states are 0..top, an     *)
(* action is a positive step a taken from a per-game `menu`, and           *)
(* result(s, a) = s - a, so every line of play ends.  Each state carries   *)
(* what the agent reads of it: whether it is terminal, who has won it,     *)
(* and the two players' liberty counts.  A non-terminal state may have no  *)
(* action at all (state 0).                                                *)
(***************************************************************************)
EXTENDS Integers, Sequences, FiniteSets, TLC

\* ------------------------------------------------------------------ bounds
NumStates == 6       \* game states are 0..NumStates-1
MaxDepth == 4        \* depth bounds handed to the search
MaxPly == 2          \* ply counts of the root state
MaxLiberties == 3    \* liberty counts handed to the evaluators

\* ------------------------------------------------------- program constants
Inf == 1000          \* float("inf"); every heuristic score lies strictly inside
SearchDepth == 4     \* get_action: self.alphabeta(state, depth=4)
OpeningPlies == 2    \* get_action: state.ply_count < 2
Cells == 99          \* score_build: blocks_left / 99
Stride == 13         \* score_central: loc % 13, loc // 13
Width == 11          \* score_central: 11 / 2, 11 - cen_x
Height == 9          \* score_central: 9 / 2, 9 - cen_y

NegInf == -Inf

VARIABLES
    game,            \* game[s]: what the agent can read of game state s
    menu,            \* the steps of the game, in the engine's enumeration order
    player_id,       \* self.player_id
    state,           \* the state handed to get_action / alphabeta / ab_*_value
    ply_count,       \* state.ply_count of that state
    depth,           \* the depth argument
    alpha, beta,     \* alphabeta's locals / ab_*_value's arguments
    best_score, best_move, scores, idx,   \* alphabeta's locals; idx: loop position
    ret,             \* the value last returned (alphabeta, ab_*_value)
    queue,           \* self.queue: the actions put so far
    pc,              \* position of the running call
    calls,           \* number of calls made to alphabeta and ab_min_value
    visited,         \* <<plies below the root, what was done there>> of the search
    own_loc, opp_loc, own_liberties, opp_liberties,  \* the evaluators' inputs
    board,           \* str(state.board), the characters score_build counts
    out,             \* the evaluator's last result
    prev_board, prev_out   \* the board and result of the evaluation before

gameVars == <<game, menu, player_id, state, ply_count>>
searchVars == <<depth, alpha, beta, best_score, best_move, scores, idx, ret,
                queue, pc, calls, visited>>
evalVars == <<own_loc, opp_loc, own_liberties, opp_liberties, board, out,
              prev_board, prev_out>>
vars == <<gameVars, searchVars, evalVars>>

Max(a, b) == IF a >= b THEN a ELSE b
Min(a, b) == IF a <= b THEN a ELSE b

\* ------------------------------------------------------ the game interface
States == 0 .. NumStates - 1
Players == {0, 1}
NoAction == 0

Terminals == {[terminal |-> TRUE, winner |-> w, libs |-> <<0, 0>>] : w \in Players}
LibPairs == {<<0, 1>>, <<1, 0>>}
Lives == {[terminal |-> FALSE, winner |-> 0, libs |-> l] : l \in LibPairs}
Labels == Terminals \cup Lives
Menus == {<<1>>, <<1, 2>>, <<2, 1>>}

\* state.actions(): the steps of the menu that can still be taken, in order
actions(s) == SelectSeq(menu, LAMBDA a : a <= s)
\* state.result(a)
result(s, a) == s - a
\* state.terminal_test()
terminal_test(s) == game[s].terminal
\* state.utility(p): +inf when p has won the terminal state, -inf otherwise
utility(s, p) == IF game[s].winner = p THEN Inf ELSE NegInf
\* len(state.liberties(state.locs[p]))
liberties(s, p) == game[s].libs[p + 1]

\* ------------------------------------------------------------- the agent
\* CustomPlayer.score
score(s) == liberties(s, player_id) - liberties(s, 1 - player_id)

RECURSIVE ab_min_value(_, _, _, _), ab_max_value(_, _, _, _)
RECURSIVE ab_min_loop(_, _, _, _, _, _), ab_max_loop(_, _, _, _, _, _)

\* ab_min_loop with the cut-off taken against beta, as the max layer's is
ab_min_loop_beta_cut(s, i, value, a, b, d) ==
    IF i > Len(actions(s)) THEN value
    ELSE LET v == Min(value, ab_max_value(result(s, actions(s)[i]), a, b, d - 1))
         IN  IF v <= b THEN v
             ELSE ab_min_loop(s, i + 1, v, a, Min(b, v), d)

\* the for loop of ab_min_value, from the i-th action on
ab_min_loop(s, i, value, a, b, d) ==
    IF i > Len(actions(s)) THEN value
    ELSE LET v == Min(value, ab_max_value(result(s, actions(s)[i]), a, b, d - 1))
         IN  IF v <= a THEN v
             ELSE ab_min_loop(s, i + 1, v, a, Min(b, v), d)

\* the for loop of ab_max_value, from the i-th action on
ab_max_loop(s, i, value, a, b, d) ==
    IF i > Len(actions(s)) THEN value
    ELSE LET v == Max(value, ab_min_value(result(s, actions(s)[i]), a, b, d - 1))
         IN  IF v >= b THEN v
             ELSE ab_max_loop(s, i + 1, v, Max(a, v), b, d)

ab_min_value(s, a, b, d) ==
    IF terminal_test(s) THEN utility(s, player_id)
    ELSE IF d <= 0 THEN score(s)
    ELSE ab_min_loop(s, 1, Inf, a, b, d)

\* ab_max_value with the depth cut-off tested before the terminal test
ab_max_value_cutoff_first(s, a, b, d) ==
    IF d <= 0 THEN score(s)
    ELSE IF terminal_test(s) THEN utility(s, player_id)
    ELSE ab_max_loop(s, 1, NegInf, a, b, d)

ab_max_value(s, a, b, d) ==
    IF terminal_test(s) THEN utility(s, player_id)
    ELSE IF d <= 0 THEN score(s)
    ELSE ab_max_loop(s, 1, NegInf, a, b, d)

\* ----------------------------------------------- plain minimax (reference)
RECURSIVE minimax_min(_, _), minimax_max(_, _)
RECURSIVE minimax_min_loop(_, _, _, _), minimax_max_loop(_, _, _, _)

minimax_min_loop(s, i, value, d) ==
    IF i > Len(actions(s)) THEN value
    ELSE minimax_min_loop(s, i + 1,
             Min(value, minimax_max(result(s, actions(s)[i]), d - 1)), d)

minimax_max_loop(s, i, value, d) ==
    IF i > Len(actions(s)) THEN value
    ELSE minimax_max_loop(s, i + 1,
             Max(value, minimax_min(result(s, actions(s)[i]), d - 1)), d)

minimax_min(s, d) ==
    IF terminal_test(s) THEN utility(s, player_id)
    ELSE IF d <= 0 THEN score(s)
    ELSE minimax_min_loop(s, 1, Inf, d)

minimax_max(s, d) ==
    IF terminal_test(s) THEN utility(s, player_id)
    ELSE IF d <= 0 THEN score(s)
    ELSE minimax_max_loop(s, 1, NegInf, d)

\* ------------------------------------------------------------ evaluators
\* a / b rounded down in place of up
floor_div(a, b) == a \div b

\* math.ceil(a / b) for positive integers a, b
ceil_div(a, b) == (a + b - 1) \div b

\* score_central, lines 98-101: the centrality of a location
centrality(loc) ==
    LET cen_x == ceil_div(Width, 2)
        cen_y == ceil_div(Height, 2)
        x == loc % Stride
        y == loc \div Stride
    IN  ((Width - cen_x) * (Width - cen_x) - (x - cen_x) * (x - cen_x))
        + ((Height - cen_y) * (Height - cen_y) - (y - cen_y) * (y - cen_y))

\* CustomPlayer.score_central, in tenths (the code divides the centrality
\* difference by 10; the liberty difference is returned undivided)
score_central(own, opp, n_own, n_opp) ==
    IF n_own # n_opp THEN 10 * (n_own - n_opp)
    ELSE centrality(own) - centrality(opp)

\* str.count: the number of positions of s holding ch
count(s, ch) == Cardinality({i \in DOMAIN s : s[i] = ch})

\* multiplier with the first two rows of the table exchanged
multiplier_swapped(blocks_left) ==
    IF blocks_left * 10 > 9 * Cells THEN 7
    ELSE IF blocks_left * 10 > 7 * Cells THEN 6
    ELSE IF blocks_left * 10 > 5 * Cells THEN 8
    ELSE 4

\* score_build, lines 133-141: the multiplier in quarters (1.50, 1.75, 2, 1);
\* blocks_left / 99 > 0.9 is blocks_left * 10 > 9 * 99, and so on
multiplier(blocks_left) ==
    IF blocks_left * 10 > 9 * Cells THEN 6
    ELSE IF blocks_left * 10 > 7 * Cells THEN 7
    ELSE IF blocks_left * 10 > 5 * Cells THEN 8
    ELSE 4

\* CustomPlayer.score_build, in quarters
score_build(n_own, n_opp, brd) ==
    4 * n_own - multiplier(count(brd, "1")) * n_opp

\* ---------------------------------------------- what the recursion visits
\* The nodes ab_min_value / ab_max_value visit, each as
\* <<plies below the root, "utility" | "score" | "expand">>: the same control
\* flow as above, collecting the visits in place of the value.  An early
\* return that leaves actions of the node unexplored adds <<plies, "prune">>.
RECURSIVE visit_min(_, _, _, _, _), visit_max(_, _, _, _, _)
RECURSIVE visit_min_loop(_, _, _, _, _, _, _), visit_max_loop(_, _, _, _, _, _, _)

visit_min_loop(s, i, value, a, b, d, ply) ==
    IF i > Len(actions(s)) THEN {}
    ELSE LET c == result(s, actions(s)[i])
             v == Min(value, ab_max_value(c, a, b, d - 1))
         IN  visit_max(c, a, b, d - 1, ply + 1) \cup
             (IF v <= a
                 THEN (IF i < Len(actions(s)) THEN {<<ply, "prune">>} ELSE {})
                 ELSE visit_min_loop(s, i + 1, v, a, Min(b, v), d, ply))

visit_max_loop(s, i, value, a, b, d, ply) ==
    IF i > Len(actions(s)) THEN {}
    ELSE LET c == result(s, actions(s)[i])
             v == Max(value, ab_min_value(c, a, b, d - 1))
         IN  visit_min(c, a, b, d - 1, ply + 1) \cup
             (IF v >= b
                 THEN (IF i < Len(actions(s)) THEN {<<ply, "prune">>} ELSE {})
                 ELSE visit_max_loop(s, i + 1, v, Max(a, v), b, d, ply))

visit_min(s, a, b, d, ply) ==
    IF terminal_test(s) THEN {<<ply, "utility">>}
    ELSE IF d <= 0 THEN {<<ply, "score">>}
    ELSE {<<ply, "expand">>} \cup visit_min_loop(s, 1, Inf, a, b, d, ply)

visit_max(s, a, b, d, ply) ==
    IF terminal_test(s) THEN {<<ply, "utility">>}
    ELSE IF d <= 0 THEN {<<ply, "score">>}
    ELSE {<<ply, "expand">>} \cup visit_max_loop(s, 1, NegInf, a, b, d, ply)

\* ------------------------------------------------- alphabeta and get_action
\* no choice made: the move is left unset
random_choice_unset(seq) == {NoAction}

\* random.choice(seq): any element of a non-empty sequence
random_choice(seq) == {seq[i] : i \in DOMAIN seq}

\* alphabeta, line 56: the bound handed to ab_min_value for a root successor
root_bound(d) == d

\* the test with >= in place of >
improves_or_ties(v, best) == v >= best

\* alphabeta, line 59: the test that replaces the best move
improves(v, best) == v > best

\* alphabeta as a function of the fallback random.choice picked at line 53:
\* the root for loop from the i-th action on, then the move returned
RECURSIVE alphabeta_loop(_, _, _, _, _, _)
alphabeta_loop(s, i, a, best, move, d) ==
    IF i > Len(actions(s)) THEN move
    ELSE LET act == actions(s)[i]
             v == ab_min_value(result(s, act), a, Inf, root_bound(d))
         IN  IF improves(v, best)
                THEN alphabeta_loop(s, i + 1, Max(a, v), v, act, d)
                ELSE alphabeta_loop(s, i + 1, Max(a, v), best, move, d)

alphabeta(s, d, fallback) == alphabeta_loop(s, 1, NegInf, NegInf, fallback, d)

\* ------------------------------------------------------------ initial states
\* a game of 1..NumStates states, handed over at its top state
GameInit ==
    /\ \E n \in 1 .. NumStates :
          /\ game \in [0 .. n - 1 -> Labels]
          /\ state = n - 1
    /\ menu \in Menus
    /\ player_id \in Players

\* the game driver asks for a move only in a state that is not terminal
RootLive == ~terminal_test(state)

LocalsIdle ==
    /\ alpha = NegInf /\ beta = Inf
    /\ best_score = NegInf /\ best_move = NoAction /\ scores = <<>> /\ idx = 0
    /\ ret = 0 /\ queue = <<>> /\ visited = {}

SearchIdle == LocalsIdle /\ depth = 0 /\ calls = 0

\* no game is searched: a single live state
GameIdle ==
    /\ game = [s \in {0} |-> [terminal |-> FALSE, winner |-> 0, libs |-> <<0, 0>>]]
    /\ state = 0 /\ menu = <<1>> /\ player_id = 0 /\ ply_count = 0

EvalIdle ==
    /\ own_loc = 0 /\ opp_loc = 0 /\ own_liberties = 0 /\ opp_liberties = 0
    /\ board = <<>> /\ out = 0 /\ prev_board = <<>> /\ prev_out = 0

\* ------------------------------------------- ab_min_value / ab_max_value alone
Windows == {<<NegInf, Inf>>, <<NegInf, 0>>, <<0, Inf>>}

InitAB ==
    /\ GameInit /\ SearchIdle /\ EvalIdle
    /\ ply_count = 0
    /\ pc = "ab_call"

CallMin ==
    /\ pc = "ab_call"
    /\ \E d \in -1 .. MaxDepth, w \in Windows :
          /\ depth' = d /\ alpha' = w[1] /\ beta' = w[2]
          /\ ret' = ab_min_value(state, w[1], w[2], d)
          /\ visited' = visit_min(state, w[1], w[2], d, 0)
    /\ pc' = "min_returned"
    /\ UNCHANGED <<gameVars, evalVars, best_score, best_move, scores, idx,
                   queue, calls>>

CallMax ==
    /\ pc = "ab_call"
    /\ \E d \in -1 .. MaxDepth, w \in Windows :
          /\ depth' = d /\ alpha' = w[1] /\ beta' = w[2]
          /\ ret' = ab_max_value(state, w[1], w[2], d)
          /\ visited' = visit_max(state, w[1], w[2], d, 0)
    /\ pc' = "max_returned"
    /\ UNCHANGED <<gameVars, evalVars, best_score, best_move, scores, idx,
                   queue, calls>>

NextAB == CallMin \/ CallMax
SpecAB == InitAB /\ [][NextAB]_vars

\* C1: for every state and every depth >= 0, ab_min_value and ab_max_value
\* called with the window (-inf, +inf) return the value of the plain minimax
\* of the same depth: pruning never changes the value.
C1_AlphaBetaEqualsMinimax ==
    (alpha = NegInf /\ beta = Inf /\ depth >= 0) =>
        /\ pc = "min_returned" => ret = minimax_min(state, depth)
        /\ pc = "max_returned" => ret = minimax_max(state, depth)

\* a full-window call that cut a node's actions short, with a finite value
C1_Witness ==
    /\ pc = "max_returned" /\ alpha = NegInf /\ beta = Inf /\ depth >= 3
    /\ \E k \in 1 .. NumStates : <<k, "prune">> \in visited
    /\ ret = minimax_max(state, depth)
    /\ ret \notin {NegInf, Inf}

\* C9: in both layers a terminal state yields utility(self.player_id) at any
\* depth (also <= 0) and for any window; the heuristic score is what is
\* returned for a non-terminal state with depth <= 0, and for no other.
C9_TerminalBeforeCutoff ==
    pc \in {"min_returned", "max_returned"} =>
        /\ terminal_test(state) =>
              ret = utility(state, player_id) /\ visited = {<<0, "utility">>}
        /\ (~terminal_test(state) /\ depth <= 0) =>
              ret = score(state) /\ visited = {<<0, "score">>}
        /\ <<0, "score">> \in visited => (~terminal_test(state) /\ depth <= 0)

\* a terminal state handed to ab_max_value at depth 0 in a narrow window
C9_Witness ==
    /\ pc = "max_returned" /\ depth <= 0 /\ alpha = 0
    /\ terminal_test(state) /\ game[state].winner # player_id
    /\ ret = NegInf /\ ret # score(state)

\* --------------------------------------------------- the running call, stepwise
\* pc: "get_action" (entered), "alphabeta" (entered), "loop" (in the root for
\* loop), "return" (alphabeta has returned ret), "done" (get_action returned),
\* "raised" (random.choice of an empty sequence: IndexError), "interrupted"
\* (the caller cut the call off).

\* get_action, ply_count < 2: self.queue.put(random.choice(state.actions()))
GetActionOpening ==
    /\ pc = "get_action" /\ ply_count < OpeningPlies
    /\ actions(state) # <<>>
    /\ \E a \in random_choice(actions(state)) : queue' = Append(queue, a)
    /\ pc' = "done"
    /\ UNCHANGED <<gameVars, evalVars, depth, alpha, beta, best_score, best_move,
                   scores, idx, ret, calls, visited>>

\* get_action entering the search one ply shallower
GetActionSearch_shallow ==
    /\ pc = "get_action" /\ ~(ply_count < OpeningPlies)
    /\ depth' = SearchDepth - 1
    /\ calls' = calls + 1
    /\ pc' = "alphabeta"
    /\ UNCHANGED <<gameVars, evalVars, alpha, beta, best_score, best_move,
                   scores, idx, ret, queue, visited>>

\* get_action, otherwise: enter self.alphabeta(state, depth=4)
GetActionSearch ==
    /\ pc = "get_action" /\ ~(ply_count < OpeningPlies)
    /\ depth' = SearchDepth
    /\ calls' = calls + 1
    /\ pc' = "alphabeta"
    /\ UNCHANGED <<gameVars, evalVars, alpha, beta, best_score, best_move,
                   scores, idx, ret, queue, visited>>

\* alphabeta, lines 50-54
AlphabetaInit ==
    /\ pc = "alphabeta"
    /\ actions(state) # <<>>
    /\ alpha' = NegInf /\ beta' = Inf /\ best_score' = NegInf
    /\ best_move' \in random_choice(actions(state))
    /\ scores' = <<>> /\ idx' = 1
    /\ pc' = "loop"
    /\ UNCHANGED <<gameVars, evalVars, depth, ret, queue, calls, visited>>

\* random.choice(state.actions()) of a state without actions raises IndexError
ChoiceRaises ==
    /\ \/ pc = "get_action" /\ ply_count < OpeningPlies
       \/ pc = "alphabeta"
    /\ actions(state) = <<>>
    /\ pc' = "raised"
    /\ UNCHANGED <<gameVars, evalVars, depth, alpha, beta, best_score, best_move,
                   scores, idx, ret, queue, calls, visited>>

\* alphabeta, lines 55-61: one pass of the root for loop
AlphabetaLoop ==
    /\ pc = "loop" /\ idx <= Len(actions(state))
    /\ LET a == actions(state)[idx]
           v == ab_min_value(result(state, a), alpha, beta, root_bound(depth))
       IN  /\ alpha' = Max(alpha, v)
           /\ scores' = Append(scores, v)
           /\ IF improves(v, best_score)
                 THEN best_score' = v /\ best_move' = a
                 ELSE UNCHANGED <<best_score, best_move>>
           /\ visited' = visited \cup
                           visit_min(result(state, a), alpha, beta, root_bound(depth), 1)
    /\ calls' = calls + 1
    /\ idx' = idx + 1
    /\ UNCHANGED <<gameVars, evalVars, depth, beta, ret, queue, pc>>

\* alphabeta, line 62: return best_move
AlphabetaReturn ==
    /\ pc = "loop" /\ idx > Len(actions(state))
    /\ ret' = best_move
    /\ pc' = "return"
    /\ UNCHANGED <<gameVars, evalVars, depth, alpha, beta, best_score, best_move,
                   scores, idx, queue, calls, visited>>

\* get_action putting the move it got a second time
GetActionPut_twice ==
    /\ pc = "return"
    /\ queue' = queue \o <<ret, ret>>
    /\ pc' = "done"
    /\ UNCHANGED <<gameVars, evalVars, depth, alpha, beta, best_score, best_move,
                   scores, idx, ret, calls, visited>>

\* get_action, line 47: self.queue.put(<what alphabeta returned>)
GetActionPut ==
    /\ pc = "return"
    /\ queue' = Append(queue, ret)
    /\ pc' = "done"
    /\ UNCHANGED <<gameVars, evalVars, depth, alpha, beta, best_score, best_move,
                   scores, idx, ret, calls, visited>>

\* the caller cuts the running call off once the time limit has expired; the
\* limit leaves the time to enter get_action, so the cut falls inside the search
Interrupt ==
    /\ pc \in {"alphabeta", "loop", "return"}
    /\ pc' = "interrupted"
    /\ UNCHANGED <<gameVars, evalVars, depth, alpha, beta, best_score, best_move,
                   scores, idx, ret, queue, calls, visited>>

\* alphabeta(state, depth) called on its own
InitSearch ==
    /\ GameInit /\ RootLive /\ LocalsIdle /\ EvalIdle
    /\ ply_count = OpeningPlies
    /\ depth \in 1 .. MaxDepth
    /\ calls = 1
    /\ pc = "alphabeta"

NextSearch ==
    \/ AlphabetaInit
    \/ ChoiceRaises
    \/ AlphabetaLoop
    \/ AlphabetaReturn
SpecSearch == InitSearch /\ [][NextSearch]_vars

\* get_action(state) called by the game driver, which may cut it off
InitPlayer ==
    /\ GameInit /\ RootLive /\ SearchIdle /\ EvalIdle
    /\ ply_count \in 0 .. MaxPly
    /\ pc = "get_action"

NextPlayer ==
    \/ GetActionOpening
    \/ GetActionSearch
    \/ AlphabetaInit
    \/ ChoiceRaises
    \/ AlphabetaLoop
    \/ AlphabetaReturn
    \/ GetActionPut
    \/ Interrupt
SpecPlayer == InitPlayer /\ [][NextPlayer]_vars

\* ------------------------------------------------------ score_central alone
\* the cells of the 11 x 9 board, as flat locations with a stride of 13
Locs == {x + Stride * y : x \in 0 .. Width - 1, y \in 0 .. Height - 1}

InitCentral ==
    /\ GameIdle /\ SearchIdle
    /\ own_loc \in Locs /\ opp_loc \in Locs /\ own_loc # opp_loc
    /\ own_liberties \in 0 .. MaxLiberties
    /\ opp_liberties \in 0 .. MaxLiberties
    /\ board = <<>> /\ out = 0 /\ prev_board = <<>> /\ prev_out = 0
    /\ pc = "eval_call"

CallScoreCentral ==
    /\ pc = "eval_call"
    /\ out' = score_central(own_loc, opp_loc, own_liberties, opp_liberties)
    /\ pc' = "evaluated"
    /\ UNCHANGED <<gameVars, depth, alpha, beta, best_score, best_move, scores,
                   idx, ret, queue, calls, visited, own_loc, opp_loc,
                   own_liberties, opp_liberties, board, prev_board, prev_out>>

NextCentral == CallScoreCentral
SpecCentral == InitCentral /\ [][NextCentral]_vars

\* -------------------------------------------------------- score_build alone
\* a board string with n open cells ("1") among its 99
board_with(n) == [i \in 1 .. Cells |-> IF i <= n THEN "1" ELSE "0"]

InitBuild ==
    /\ GameIdle /\ SearchIdle
    /\ own_loc = 0 /\ opp_loc = 0
    /\ own_liberties \in 0 .. MaxLiberties
    /\ opp_liberties \in 0 .. MaxLiberties
    /\ \E n \in 0 .. Cells : board = board_with(n)
    /\ out = 0 /\ prev_board = <<>> /\ prev_out = 0
    /\ pc = "eval_call"

CallScoreBuild ==
    /\ pc = "eval_call"
    /\ out' = score_build(own_liberties, opp_liberties, board)
    /\ pc' = "evaluated"
    /\ UNCHANGED <<gameVars, depth, alpha, beta, best_score, best_move, scores,
                   idx, ret, queue, calls, visited, own_loc, opp_loc,
                   own_liberties, opp_liberties, board, prev_board, prev_out>>

\* the game goes on with the liberty counts held fixed: fewer cells stay open,
\* and score_build is called on the new board
CallScoreBuildLater ==
    /\ pc = "evaluated"
    /\ \E n \in 0 .. Cells :
          /\ n < count(board, "1")
          /\ board' = board_with(n)
    /\ prev_board' = board /\ prev_out' = out
    /\ out' = score_build(own_liberties, opp_liberties, board')
    /\ pc' = "evaluated_later"
    /\ UNCHANGED <<gameVars, depth, alpha, beta, best_score, best_move, scores,
                   idx, ret, queue, calls, visited, own_loc, opp_loc,
                   own_liberties, opp_liberties>>

NextBuild == CallScoreBuild \/ CallScoreBuildLater
SpecBuild == InitBuild /\ [][NextBuild]_vars

\* ------------------------------------------------------------ the claims
is_action(a, s) == \E j \in DOMAIN actions(s) : actions(s)[j] = a

\* the plain minimax value of the i-th root successor at the horizon searched
root_minimax(i) == minimax_min(result(state, actions(state)[i]), depth)

\* the first root action, in enumeration order, whose successor attains the
\* greatest plain minimax value
first_best ==
    CHOOSE i \in DOMAIN actions(state) :
        /\ \A j \in DOMAIN actions(state) : root_minimax(j) <= root_minimax(i)
        /\ \A j \in 1 .. i - 1 : root_minimax(j) < root_minimax(i)

\* C2: whenever a get_action call on a state with a legal action has returned
\* or has been cut off, an action has already been put on the queue.
C2_ReportedBeforeInterrupt ==
    (pc \in {"done", "interrupted"} /\ actions(state) # <<>>) => Len(queue) >= 1

\* C3: with ply_count < 2 get_action reports a legal action of the state and
\* makes no call to the searcher; otherwise it reports what alphabeta returns
\* for the depth bound 4.
C3_OpeningThenDepth4 ==
    pc = "done" =>
        /\ ply_count < 2 =>
              /\ Len(queue) = 1 /\ is_action(queue[1], state)
              /\ calls = 0 /\ visited = {}
        /\ ply_count >= 2 =>
              /\ depth = 4
              /\ \E f \in random_choice(actions(state)) :
                    queue = <<alphabeta(state, 4, f)>>

\* a completed search that ran down to its horizon and reported a move that
\* improved on the fallback
C3_Witness ==
    /\ pc = "done" /\ ply_count >= 2 /\ calls > 1
    /\ \E k \in 1 .. NumStates : <<k, "score">> \in visited
    /\ best_score > NegInf /\ queue = <<best_move>>

\* C4: for a non-terminal state with exactly one legal action and any depth
\* >= 1, alphabeta returns that action, whatever its successor is worth.
C4_SingleAction ==
    (pc = "return" /\ ~terminal_test(state) /\ Len(actions(state)) = 1 /\ depth >= 1)
        => ret = actions(state)[1]

\* the single successor is worth -inf, so the test of line 59 never fired
C4_Witness ==
    /\ pc = "return" /\ ~terminal_test(state) /\ Len(actions(state)) = 1
    /\ scores = <<NegInf>> /\ best_score = NegInf
    /\ ret = actions(state)[1]

\* C7: each root successor is searched with bound depth - 1: the heuristic is
\* applied exactly `depth` plies below the root, and nothing deeper is reached.
C7_HorizonIsDepth ==
    \A e \in visited :
        /\ e[2] = "score" => e[1] = depth
        /\ e[1] <= depth

\* C8: when some root successor is worth more than -inf, alphabeta returns
\* the first action, in enumeration order, whose successor attains the greatest
\* plain minimax value.
C8_FirstBestAction ==
    (/\ pc = "return" /\ ~terminal_test(state)
     /\ \E i \in DOMAIN actions(state) : root_minimax(i) > NegInf)
        => ret = actions(state)[first_best]

\* the second root action tied with the first, and its search was cut short
\* and returned more than its minimax value
C8_Witness ==
    /\ pc = "return" /\ ~terminal_test(state) /\ Len(actions(state)) = 2
    /\ root_minimax(1) > NegInf
    /\ scores[2] = root_minimax(1) /\ scores[2] > root_minimax(2)
    /\ ret = actions(state)[1]

\* C10: every action get_action puts on the queue is a legal action of the
\* root state, and a completed call has put exactly one.
C10_PutsOneLegalAction ==
    /\ \A i \in DOMAIN queue : is_action(queue[i], state)
    /\ pc = "done" => Len(queue) = 1

\* the search improved on nothing and reported the random fallback, here the
\* second of two legal actions
C10_Witness ==
    /\ pc = "done" /\ ply_count >= 2 /\ best_score = NegInf
    /\ Len(actions(state)) = 2 /\ queue = <<actions(state)[2]>>

halfway_centrality4(loc) ==
    LET x == loc % 13
        y == loc \div 13
    IN  (11 * 11 - (2 * x - 11) * (2 * x - 11)) + (9 * 9 - (2 * y - 9) * (2 * y - 9))

C6_CentreHalfway ==
    pc = "evaluated" =>
        4 * out = IF own_liberties # opp_liberties
                     THEN 40 * (own_liberties - opp_liberties)
                     ELSE halfway_centrality4(own_loc) - halfway_centrality4(opp_loc)

\* C6 amended: the centre used is (6, 5), that is (ceil(11/2), ceil(9/2)):
\* the centrality of (x, y) is (5^2 - (x - 6)^2) + (4^2 - (y - 5)^2).
ceil_centrality(loc) ==
    LET x == loc % 13
        y == loc \div 13
    IN  (5 * 5 - (x - 6) * (x - 6)) + (4 * 4 - (y - 5) * (y - 5))

C6_CentreCeil ==
    pc = "evaluated" =>
        out = IF own_liberties # opp_liberties
                 THEN 10 * (own_liberties - opp_liberties)
                 ELSE ceil_centrality(own_loc) - ceil_centrality(opp_loc)

\* equal liberties, and the two centres give different scores
C6_Witness ==
    /\ pc = "evaluated" /\ own_liberties = opp_liberties
    /\ out = ceil_centrality(own_loc) - ceil_centrality(opp_loc)
    /\ 4 * out # halfway_centrality4(own_loc) - halfway_centrality4(opp_loc)

====
